---- MODULE Spec2Model ----
(***************************************************************************)
(* Dictation session controller of src-tauri/src/lib.rs: the global        *)
(* TRANSCRIPTION_ACTIVE flag and its mutex, the start_transcription and    *)
(* stop_transcription commands (each call runs on its own runtime thread), *)
(* and the recognition tasks spawned by start_transcription, which run     *)
(* start_macos_speech_recognition.                                         *)
(***************************************************************************)
EXTENDS Integers, Sequences, FiniteSets, TLC

\* ---------------------------------------------------------------- bounds
\* Recognition tasks that may be alive (spawned, not yet returned) at once.
MaxProducers == 2

\* Command invocations admitted in one run.
MaxCalls == 3

\* Command invocations that may be in flight at the same time.
Callers == {"c1", "c2"}

Slots == 1..MaxProducers

\* ------------------------------------------------------------- constants
NoLang == "None"
\* language: Option<String> as passed by the front end.
LangArgs == {NoLang, "es-ES", "fr-FR"}

NoHolder == "free"
\* The thread of recognition task s, as a holder of the mutex.
TaskThread(s) == "task" \o ToString(s)
NoTask == [pc |-> "none"]
NoRet == [caller |-> "-", op |-> "-", val |-> "-"]

\* Counter value of the match arm `_` that publishes the final fragment.
TerminalStep == 10

\* ------------------------------------------------------------- variables
VARIABLES
  macos,    \* cfg(target_os = "macos") of the build
  active,   \* *TRANSCRIPTION_ACTIVE
  lock,     \* holder of the TRANSCRIPTION_ACTIVE mutex
  pc,       \* position of each command invocation
  arg,      \* `language` argument of a start_transcription in flight
  tasks,    \* tokio tasks spawned by start_transcription, by slot
  out,      \* events handed to app_handle.emit by the last step
  ret,      \* value returned to the front end by the last step
  calls,    \* history: invocations admitted so far
  session,  \* history: what the sink has seen since the last successful start
  env,      \* DEEPL_API_KEY as env::var sees it
  tx,       \* the translate call: its position, request, response, result
  sx,       \* the speak call: its position, `say` command and result
  kx        \* the stop_speech call: its position, `killall` status and result

vars == <<macos, active, lock, pc, arg, tasks, out, ret, calls, session,
          env, tx, sx, kx>>

\* ---------------------------------------------------------------- values
Ok == "Ok"
AlreadyActive == "Transcription already active"
Unsupported == "Speech recognition is only supported on macOS"

\* The simulated permission check compiled for every target.
check_microphone_permission_simulated == Ok

\* check_microphone_permission(): Ok(()) on macOS, Err(..) elsewhere.
check_microphone_permission ==
  IF macos THEN Ok
  ELSE "Microphone permission check not supported on this platform"

PermissionDenied == "Microphone permission denied: " \o check_microphone_permission

ResultEvent(text, final) ==
  [topic |-> "transcription-result", text |-> text, is_final |-> final]

ErrorEvent(message) ==
  [topic |-> "transcription-error", text |-> message, is_final |-> FALSE]

\* The partial texts of start_macos_speech_recognition, counter 1..9.
EsPartial ==
  << "Hola",
     "Hola mundo",
     "Hola mundo, esta",
     "Hola mundo, esta es",
     "Hola mundo, esta es una",
     "Hola mundo, esta es una prueba",
     "Hola mundo, esta es una prueba de",
     "Hola mundo, esta es una prueba de reconocimiento",
     "Hola mundo, esta es una prueba de reconocimiento de voz" >>

FrPartial ==
  << "Bonjour",
     "Bonjour le monde",
     "Bonjour le monde, ceci",
     "Bonjour le monde, ceci est",
     "Bonjour le monde, ceci est un",
     "Bonjour le monde, ceci est un test",
     "Bonjour le monde, ceci est un test de",
     "Bonjour le monde, ceci est un test de reconnaissance",
     "Bonjour le monde, ceci est un test de reconnaissance vocale" >>

EnPartial ==
  << "Hello",
     "Hello world",
     "Hello world, this",
     "Hello world, this is",
     "Hello world, this is a",
     "Hello world, this is a test",
     "Hello world, this is a test of",
     "Hello world, this is a test of speech",
     "Hello world, this is a test of speech recognition" >>

\* The tables with the arms of counter 3 and 4 exchanged.
PartialTableSwapped(language) ==
  LET t == CASE language = "es-ES" -> EsPartial
             [] language = "fr-FR" -> FrPartial
             [] OTHER -> EnPartial
  IN [t EXCEPT ![3] = t[4], ![4] = t[3]]

\* The table of the language; the match on language.as_str().
PartialTable(language) ==
  CASE language = "es-ES" -> EsPartial
    [] language = "fr-FR" -> FrPartial
    [] OTHER -> EnPartial

FinalText(language) ==
  CASE language = "es-ES" -> "Hola mundo, esta es una prueba de reconocimiento de voz."
    [] language = "fr-FR" -> "Bonjour le monde, ceci est un test de reconnaissance vocale."
    [] OTHER -> "Hello world, this is a test of speech recognition."

\* The fragment one loop iteration publishes once counter has been
\* incremented: a partial for 1..9, the final one for any other value.
Fragment(language, counter) ==
  IF counter \in 1..Len(PartialTable(language))
  THEN ResultEvent(PartialTable(language)[counter], FALSE)
  ELSE ResultEvent(FinalText(language), TRUE)

\* language.unwrap_or_else(|| "en-US")
LangOf(a) == IF a = NoLang THEN "en-US" ELSE a

\* ---------------------------------------------------------------- gateways
\* env::var("DEEPL_API_KEY") is Err: the variable is not set.
NoKey == "<unset>"
Placeholder == "your_deepl_api_key_here"
Credentials == {NoKey, "", Placeholder, "3f1c-demo-key:fx"}

NoResult == [kind |-> "none", value |-> ""]
OkResult(v) == [kind |-> "Ok", value |-> v]
ErrResult(m) == [kind |-> "Err", value |-> m]

NoResp == [status |-> 0]
TxIdle == [pc |-> "idle", sent |-> FALSE, req |-> << >>, resp |-> NoResp,
           result |-> NoResult]
SxIdle == [pc |-> "idle", voice_preset |-> "", language_code |-> "",
           cmd |-> << >>, killed |-> FALSE, result |-> NoResult]
KxIdle == [pc |-> "idle", found |-> FALSE, ran |-> FALSE, result |-> NoResult]

\* ------------------------------------------------------------------ state
Alive == {s \in Slots : tasks[s] # NoTask}

InFlightStarts ==
  {c \in Callers : pc[c] \in {"s_perm", "s_lock", "s_check", "s_set", "s_spawn"}}

\* A recognition task is inside its while loop (lines 293-358).
InLoop(t) == t # NoTask /\ t.pc \in {"poll", "read", "sleep"}

\* What the sink has seen of the current session once event e is published.
SessionAfter(s, e) ==
  IF e.topic # "transcription-result" THEN s
  ELSE CASE s = "closed" -> "closed"
         [] s = "open" -> IF e.is_final THEN "final" ELSE "open"
         [] OTHER -> "late"

Init ==
  /\ macos \in BOOLEAN
  /\ active = FALSE
  /\ lock = NoHolder
  /\ pc = [c \in Callers |-> "idle"]
  /\ arg = [c \in Callers |-> NoLang]
  /\ tasks = [s \in Slots |-> NoTask]
  /\ out = << >>
  /\ ret = NoRet
  /\ session = "closed"
  /\ calls = 0
  /\ env = NoKey
  /\ tx = TxIdle
  /\ sx = SxIdle
  /\ kx = KxIdle

\* ---------------------------------------------------- start_transcription
\* The front end invokes start_transcription(language) (lines 137-138).
\* A call is admitted only while a slot is left for the task it may spawn.
StartCall(c, l) ==
  /\ pc[c] = "idle"
  /\ calls < MaxCalls
  /\ calls' = calls + 1
  /\ Cardinality(Alive) + Cardinality(InFlightStarts) < MaxProducers
  /\ pc' = [pc EXCEPT ![c] = "s_perm"]
  /\ arg' = [arg EXCEPT ![c] = l]
  /\ out' = << >>
  /\ ret' = NoRet
  /\ UNCHANGED <<env, tx, sx, kx, macos, active, lock, tasks, session>>

\* The permission check run after the exclusivity transition: the flag is
\* flipped first, and a denial returns with it left true.
StartPermissionAfterFlip(c) ==
  /\ pc[c] = "s_perm"
  /\ IF check_microphone_permission # Ok
     THEN /\ out' = << ErrorEvent(PermissionDenied) >>
          /\ ret' = [caller |-> c, op |-> "start", val |-> PermissionDenied]
          /\ pc' = [pc EXCEPT ![c] = "idle"]
          /\ arg' = [arg EXCEPT ![c] = NoLang]
          /\ active' = TRUE
     ELSE /\ out' = << >>
          /\ ret' = NoRet
          /\ pc' = [pc EXCEPT ![c] = "s_lock"]
          /\ arg' = arg
          /\ active' = active
  /\ UNCHANGED <<env, tx, sx, kx, calls, macos, lock, tasks, session>>

\* Lines 141-148: the permission check, before the lock is touched.
StartPermission(c) ==
  /\ pc[c] = "s_perm"
  /\ IF check_microphone_permission # Ok
     THEN /\ out' = << ErrorEvent(PermissionDenied) >>
          /\ ret' = [caller |-> c, op |-> "start", val |-> PermissionDenied]
          /\ pc' = [pc EXCEPT ![c] = "idle"]
          /\ arg' = [arg EXCEPT ![c] = NoLang]
     ELSE /\ out' = << >>
          /\ ret' = NoRet
          /\ pc' = [pc EXCEPT ![c] = "s_lock"]
          /\ arg' = arg
  /\ UNCHANGED <<env, tx, sx, kx, calls, macos, active, lock, tasks, session>>

\* A lock() that never blocks: the flag read and written without the mutex.
LockFreeUnguarded(who) == TRUE

\* Mutex::lock(): blocks while another thread holds the guard.
LockFree(who) == lock = NoHolder

\* Line 150: TRANSCRIPTION_ACTIVE.lock().
StartLock(c) ==
  /\ pc[c] = "s_lock"
  /\ LockFree(c)
  /\ lock' = c
  /\ pc' = [pc EXCEPT ![c] = "s_check"]
  /\ out' = << >>
  /\ ret' = NoRet
  /\ UNCHANGED <<env, tx, sx, kx, calls, macos, active, arg, tasks, session>>

\* The check without its `return`: an active flag is logged and the call
\* goes on to set the flag and spawn.
StartCheckNoReturn(c) ==
  /\ pc[c] = "s_check"
  /\ out' = << >>
  /\ ret' = NoRet
  /\ pc' = [pc EXCEPT ![c] = "s_set"]
  /\ UNCHANGED <<env, tx, sx, kx, calls, macos, active, lock, arg, tasks, session>>

\* Lines 156-160: if *active, return Err (the guard is dropped on return).
StartCheck(c) ==
  /\ pc[c] = "s_check"
  /\ out' = << >>
  /\ IF active
     THEN /\ ret' = [caller |-> c, op |-> "start", val |-> AlreadyActive]
          /\ pc' = [pc EXCEPT ![c] = "idle"]
          /\ arg' = [arg EXCEPT ![c] = NoLang]
          /\ lock' = NoHolder
     ELSE /\ ret' = NoRet
          /\ pc' = [pc EXCEPT ![c] = "s_set"]
          /\ arg' = arg
          /\ lock' = lock
  /\ UNCHANGED <<env, tx, sx, kx, calls, macos, active, tasks, session>>

\* Lines 162-163: *active = true; drop(active).
StartSet(c) ==
  /\ pc[c] = "s_set"
  /\ active' = TRUE
  /\ lock' = NoHolder
  /\ pc' = [pc EXCEPT ![c] = "s_spawn"]
  /\ session' = "open"
  /\ out' = << >>
  /\ ret' = NoRet
  /\ UNCHANGED <<env, tx, sx, kx, calls, macos, arg, tasks>>

NewTask(language) ==
  [pc |-> "poll", language |-> language, counter |-> 0, late |-> -1,
   emitted |-> << >>]

\* Lines 168-197: on macOS tokio::spawn the recognition task and return
\* Ok(()) without awaiting it; elsewhere return Err.
StartSpawn(c) ==
  /\ pc[c] = "s_spawn"
  /\ IF macos
     THEN /\ \E s \in Slots :
               /\ tasks[s] = NoTask
               /\ \A r \in Slots : r < s => tasks[r] # NoTask
               /\ tasks' = [tasks EXCEPT ![s] = NewTask(LangOf(arg[c]))]
          /\ ret' = [caller |-> c, op |-> "start", val |-> Ok]
     ELSE /\ tasks' = tasks
          /\ ret' = [caller |-> c, op |-> "start", val |-> Unsupported]
  /\ pc' = [pc EXCEPT ![c] = "idle"]
  /\ arg' = [arg EXCEPT ![c] = NoLang]
  /\ out' = << >>
  /\ UNCHANGED <<env, tx, sx, kx, calls, macos, active, lock, session>>

\* ----------------------------------------------------- stop_transcription
\* The front end invokes stop_transcription() (line 201).
StopCall(c) ==
  /\ pc[c] = "idle"
  /\ calls < MaxCalls
  /\ calls' = calls + 1
  /\ pc' = [pc EXCEPT ![c] = "t_lock"]
  /\ out' = << >>
  /\ ret' = NoRet
  /\ UNCHANGED <<env, tx, sx, kx, macos, active, lock, arg, tasks, session>>

\* Line 202: TRANSCRIPTION_ACTIVE.lock().
StopLock(c) ==
  /\ pc[c] = "t_lock"
  /\ LockFree(c)
  /\ lock' = c
  /\ pc' = [pc EXCEPT ![c] = "t_set"]
  /\ out' = << >>
  /\ ret' = NoRet
  /\ UNCHANGED <<env, tx, sx, kx, calls, macos, active, arg, tasks, session>>

\* A recognition task has entered the body of its loop and not left it.
MidLoop(t) == InLoop(t) /\ (t.pc = "sleep" \/ t.counter > 0)

\* History: a task that is mid-loop when a stop takes effect counts the
\* events it publishes from then on (late = 0, 1, 2 = two or more).
MarkStopped(t) ==
  IF MidLoop(t) /\ t.late = -1 THEN [t EXCEPT !.late = 0] ELSE t

\* A stop that rejects an inactive session instead of ignoring it.
StopSetStrict(c) ==
  /\ pc[c] = "t_set"
  /\ active' = FALSE
  /\ lock' = NoHolder
  /\ pc' = [pc EXCEPT ![c] = "idle"]
  /\ ret' = [caller |-> c, op |-> "stop",
             val |-> IF active THEN Ok ELSE "Transcription not active"]
  /\ tasks' = [s \in Slots |-> MarkStopped(tasks[s])]
  /\ session' = "closed"
  /\ out' = << >>
  /\ UNCHANGED <<env, tx, sx, kx, calls, macos, arg>>

\* Lines 203-204: *active = false; Ok(()) (the guard is dropped on return).
StopSet(c) ==
  /\ pc[c] = "t_set"
  /\ active' = FALSE
  /\ lock' = NoHolder
  /\ pc' = [pc EXCEPT ![c] = "idle"]
  /\ ret' = [caller |-> c, op |-> "stop", val |-> Ok]
  /\ tasks' = [s \in Slots |-> MarkStopped(tasks[s])]
  /\ session' = "closed"
  /\ out' = << >>
  /\ UNCHANGED <<env, tx, sx, kx, calls, macos, arg>>

\* ------------------------------------------ start_macos_speech_recognition
\* Line 293, the condition of the while: TRANSCRIPTION_ACTIVE.lock().
ProducerLock(s) ==
  /\ tasks[s] # NoTask
  /\ tasks[s].pc = "poll"
  /\ LockFree(TaskThread(s))
  /\ lock' = TaskThread(s)
  /\ tasks' = [tasks EXCEPT ![s].pc = "read"]
  /\ out' = << >>
  /\ ret' = NoRet
  /\ UNCHANGED <<env, tx, sx, kx, calls, macos, active, pc, arg, session>>

\* The guard bound to a name that lives through the loop body: the flag is
\* read and the mutex stays locked during the sleep.
ProducerReadHolding(s) ==
  /\ tasks[s] # NoTask
  /\ tasks[s].pc = "read"
  /\ lock' = IF active THEN lock ELSE NoHolder
  /\ tasks' = [tasks EXCEPT ![s].pc = IF active THEN "sleep" ELSE "exit"]
  /\ out' = << >>
  /\ ret' = NoRet
  /\ UNCHANGED <<env, tx, sx, kx, calls, macos, active, pc, arg, session>>

\* A cancelled loop that closes the transcript: reading false publishes the
\* final fragment before leaving.
ProducerReadFinalOnCancel(s) ==
  /\ tasks[s] # NoTask
  /\ tasks[s].pc = "read"
  /\ lock' = NoHolder
  /\ tasks' = [tasks EXCEPT ![s].pc = IF active THEN "sleep" ELSE "exit"]
  /\ out' = IF active THEN << >>
            ELSE << ResultEvent(FinalText(tasks[s].language), TRUE) >>
  /\ ret' = NoRet
  /\ UNCHANGED <<env, tx, sx, kx, calls, macos, active, pc, arg, session>>

\* Line 293: the flag is read and the temporary guard dropped at the end of
\* the condition; true enters the body (the sleep), false leaves the loop.
ProducerRead(s) ==
  /\ tasks[s] # NoTask
  /\ tasks[s].pc = "read"
  /\ lock' = NoHolder
  /\ tasks' = [tasks EXCEPT ![s].pc = IF active THEN "sleep" ELSE "exit"]
  /\ out' = << >>
  /\ ret' = NoRet
  /\ UNCHANGED <<env, tx, sx, kx, calls, macos, active, pc, arg, session>>

\* A counter that starts over after the ninth fragment instead of reaching
\* the arm of the final one.
ProducerWakeWrap(s) ==
  /\ tasks[s] # NoTask
  /\ tasks[s].pc = "sleep"
  /\ LET t == tasks[s]
         n == IF t.counter >= TerminalStep - 1 THEN 1 ELSE t.counter + 1
         e == Fragment(t.language, n)
     IN /\ out' = << e >>
        /\ session' = SessionAfter(session, e)
        /\ tasks' = [tasks EXCEPT ![s] =
             [t EXCEPT !.counter = n,
                       !.pc = IF e.is_final THEN "exit" ELSE "poll",
                       !.late = IF t.late = -1 THEN -1
                                ELSE IF t.late >= 1 THEN 2 ELSE 1,
                       !.emitted = IF n = 1 THEN << e >>
                                   ELSE Append(t.emitted, e)]]
  /\ ret' = NoRet
  /\ UNCHANGED <<env, tx, sx, kx, calls, macos, active, lock, pc, arg>>

\* Lines 294-357: the sleep is over; counter += 1 and the fragment of the
\* counter is published: a partial one and back to the condition, or the
\* final one and break.
ProducerWake(s) ==
  /\ tasks[s] # NoTask
  /\ tasks[s].pc = "sleep"
  /\ LET t == tasks[s]
         n == t.counter + 1
         e == Fragment(t.language, n)
     IN /\ out' = << e >>
        /\ session' = SessionAfter(session, e)
        /\ tasks' = [tasks EXCEPT ![s] =
             [t EXCEPT !.counter = n,
                       !.pc = IF e.is_final THEN "exit" ELSE "poll",
                       !.late = IF t.late = -1 THEN -1
                                ELSE IF t.late >= 1 THEN 2 ELSE 1,
                       !.emitted = Append(t.emitted, e)]]
  /\ ret' = NoRet
  /\ UNCHANGED <<env, tx, sx, kx, calls, macos, active, lock, pc, arg>>

\* Lines 360 and 178-189: the function returns Ok(()) and the spawned task
\* ends.  (The Err arm needs a poisoned mutex: no holder of the guard can
\* panic, so `?` on lock() never returns early.)
ProducerExit(s) ==
  /\ tasks[s] # NoTask
  /\ tasks[s].pc = "exit"
  /\ tasks' = [tasks EXCEPT ![s] = NoTask]
  /\ out' = << >>
  /\ ret' = NoRet
  /\ UNCHANGED <<env, tx, sx, kx, calls, macos, active, lock, pc, arg, session>>

\* -------------------------------------------------------------------- Next
Next ==
  \/ \E c \in Callers, l \in LangArgs : StartCall(c, l)
  \/ \E c \in Callers : StartPermission(c)
  \/ \E c \in Callers : StartLock(c)
  \/ \E c \in Callers : StartCheck(c)
  \/ \E c \in Callers : StartSet(c)
  \/ \E c \in Callers : StartSpawn(c)
  \/ \E c \in Callers : StopCall(c)
  \/ \E c \in Callers : StopLock(c)
  \/ \E c \in Callers : StopSet(c)
  \/ \E s \in Slots : ProducerLock(s)
  \/ \E s \in Slots : ProducerRead(s)
  \/ \E s \in Slots : ProducerWake(s)
  \/ \E s \in Slots : ProducerExit(s)

Spec == Init /\ [][Next]_vars

\* ------------------------------------------------------------------ claims
InCritical(c) == pc[c] \in {"s_check", "s_set", "t_set"}

\* C1: start calls racing on an idle flag have exactly one winner: the flag
\* is set only by a call that read it false while no other call was between
\* its lock() and its release, the step takes the flag from false to true,
\* every call that reads it true returns the 'already active' error, and a
\* winner launches exactly one recognition task and returns Ok.
C1_ExactlyOneWinner ==
  [][\A c \in Callers :
       /\ (pc[c] = "s_set" /\ pc'[c] # "s_set") =>
            /\ ~active /\ active'
            /\ \A d \in Callers \ {c} : ~InCritical(d)
            /\ pc'[c] = "s_spawn"
       /\ (pc[c] = "s_check" /\ pc'[c] # "s_check" /\ active) =>
            /\ ret' = [caller |-> c, op |-> "start", val |-> AlreadyActive]
            /\ pc'[c] = "idle"
       /\ (pc[c] = "s_spawn" /\ pc'[c] # "s_spawn" /\ macos) =>
            /\ ret' = [caller |-> c, op |-> "start", val |-> Ok]
            /\ Cardinality({s \in Slots : tasks'[s] # NoTask})
                 = Cardinality(Alive) + 1
    ]_vars

\* Two calls overlapped on an idle session: one has just been turned away
\* while the winner has not even spawned its task.
C1_Witness ==
  /\ ret.op = "start" /\ ret.val = AlreadyActive
  /\ \E d \in Callers : d # ret.caller /\ pc[d] = "s_spawn"
  /\ Alive = {}
  /\ active

\* C2: a start that finds the flag true fails with AlreadyActive and has no
\* side effect: the flag stays true, no event is published, no task is
\* launched or altered, and the call is over.
C2_SecondStartNoSideEffect ==
  [][\A c \in Callers :
       (pc[c] = "s_check" /\ pc'[c] # "s_check" /\ active) =>
         /\ ret'.val = AlreadyActive
         /\ active'
         /\ out' = << >>
         /\ tasks' = tasks
         /\ session' = session
         /\ pc'[c] = "idle"
         /\ lock' = NoHolder
    ]_vars

\* The second start has just failed while the task of the first is running,
\* and it is still the only one.
C2_Witness ==
  /\ ret.op = "start" /\ ret.val = AlreadyActive
  /\ active
  /\ session = "open"
  /\ Cardinality(Alive) = 1
  /\ \A s \in Alive : InLoop(tasks[s]) /\ tasks[s].late = -1
  /\ \A c \in Callers : pc[c] = "idle"

\* C3: the flag is true exactly when the most recent successful start has
\* been followed neither by a stop nor by a final fragment.
C3_FlagIffLiveSession == active <=> (session = "open")

\* C4: once a task has published its final fragment the flag is false.
C4_IdleAfterFinal ==
  (out # << >> /\ out[1].topic = "transcription-result" /\ out[1].is_final)
    => ~active

\* C5: at most one recognition task is in its loop at a time.
C5_AtMostOneProducer ==
  Cardinality({s \in Alive : InLoop(tasks[s])}) <= 1

\* C6: a task that was mid-loop when a stop took effect publishes at most
\* one more fragment, and never the final one.
C6_StopHaltsWithoutFinal ==
  \A s \in Alive :
    tasks[s].late >= 0 =>
      /\ tasks[s].late <= 1
      /\ ~(tasks[s].pc = "exit" /\ tasks[s].counter = TerminalStep)

\* C7: a task that was mid-loop when a stop returned publishes at most
\* one further event.
C7_AtMostOneEventAfterStop ==
  \A s \in Alive : tasks[s].late <= 1

\* C8: the fragments of one task grow strictly in length, the tenth and only
\* the tenth is final, nothing follows it, and a task that leaves its loop
\* by the break has published all ten.
C8_FragmentsGrowThenOneFinal ==
  \A s \in Alive :
    LET t == tasks[s]
        e == t.emitted
    IN /\ Len(e) = t.counter
       /\ Len(e) <= TerminalStep
       /\ \A i \in 1..Len(e) :
            /\ e[i].topic = "transcription-result"
            /\ e[i].is_final <=> (i = TerminalStep)
            /\ e[i].is_final => i = Len(e)
            /\ i < Len(e) => Len(e[i].text) < Len(e[i + 1].text)
       /\ (Len(e) = TerminalStep) <=> (t.pc = "exit" /\ t.counter = TerminalStep)
       /\ (t.late = -1 /\ t.pc = "exit" /\ t.counter > 0) =>
            (Len(e) = TerminalStep /\ e[TerminalStep].is_final)

\* A task that was never stopped has run to its break.
C8_Witness ==
  \E s \in Alive :
    /\ tasks[s].pc = "exit"
    /\ tasks[s].late = -1
    /\ tasks[s].language = "fr-FR"
    /\ Len(tasks[s].emitted) = TerminalStep
    /\ tasks[s].emitted[TerminalStep].is_final

\* C9: within one session the sink sees at most one final fragment and no
\* fragment after it.
C9_OneFinalPerSession == session # "late"

\* C10: a start whose permission check fails publishes exactly one
\* transcription-error, returns the permission error, and touches neither
\* the flag, the mutex nor the tasks.
C10_PermissionFirst ==
  [][\A c \in Callers :
       (pc[c] = "s_perm" /\ pc'[c] # "s_perm"
          /\ check_microphone_permission # Ok) =>
         /\ out' = << ErrorEvent(PermissionDenied) >>
         /\ ret' = [caller |-> c, op |-> "start", val |-> PermissionDenied]
         /\ active' = active
         /\ lock' = lock
         /\ tasks' = tasks
         /\ pc'[c] = "idle"
    ]_vars

\* A start has just been denied and its one error event is at the sink.
C10_Witness ==
  /\ ret.op = "start" /\ ret.val = PermissionDenied
  /\ Len(out) = 1 /\ out[1].topic = "transcription-error"
  /\ ~active
  /\ Alive = {}

\* C11: stop always returns Ok and leaves the flag false without publishing
\* or launching anything; on an idle session it changes nothing at all, so
\* a second stop leaves the state of the first.
C11_StopIdempotent ==
  [][\A c \in Callers :
       (pc[c] = "t_set" /\ pc'[c] # "t_set") =>
         /\ ret' = [caller |-> c, op |-> "stop", val |-> Ok]
         /\ ~active'
         /\ out' = << >>
         /\ {s \in Slots : tasks'[s] # NoTask} = Alive
         /\ pc'[c] = "idle"
         /\ lock' = NoHolder
         /\ ~active => /\ tasks' = tasks
                       /\ session' = session
                       /\ arg' = arg
    ]_vars

\* The only call so far was a stop, on the idle session, and it returned Ok.
C11_Witness ==
  /\ ret.op = "stop" /\ ret.val = Ok
  /\ calls = 1
  /\ ~active
  /\ Alive = {}
  /\ session = "closed"

\* C17: the mutex is held only between a lock() and the end of the read or
\* write that follows it: a task holds it while it evaluates the loop
\* condition and never while it sleeps, a call holds it in its critical
\* section and never when it spawns, and whoever holds it can release it by
\* a step of its own, so a call waiting in lock() never waits for a task to
\* advance through its sleep.
C17_LockNeverHeldAcrossSuspension ==
  /\ \A s \in Slots :
       lock = TaskThread(s) <=> (tasks[s] # NoTask /\ tasks[s].pc = "read")
  /\ \A c \in Callers : lock = c <=> InCritical(c)
  /\ \A c \in Callers :
       pc[c] \in {"s_lock", "t_lock"} =>
         \/ lock = NoHolder /\ ENABLED (StartLock(c) \/ StopLock(c))
         \/ \E d \in Callers :
              lock = d /\ ENABLED (StartCheck(d) \/ StartSet(d) \/ StopSet(d))
         \/ \E s \in Slots : lock = TaskThread(s) /\ ENABLED ProducerRead(s)

\* A stop has taken the mutex while a recognition task is in its sleep.
C17_Witness ==
  \E c \in Callers :
    /\ pc[c] = "t_set" /\ lock = c
    /\ \E s \in Alive : tasks[s].pc = "sleep"

\* C18: a task that reads the flag false leaves its loop at once and ends
\* without publishing anything: no partial or final fragment and no
\* transcription-error; one that reads false at its first poll has
\* published nothing at all.
C18_SilentCancellation ==
  [][\A s \in Slots :
       /\ (tasks[s] # NoTask /\ tasks[s].pc = "read" /\ ~active
              /\ tasks'[s] # tasks[s]) =>
            /\ tasks'[s] = [tasks[s] EXCEPT !.pc = "exit"]
            /\ out' = << >>
       /\ (tasks[s] # NoTask /\ tasks[s].pc = "exit"
              /\ tasks[s].counter < TerminalStep) =>
            /\ tasks'[s] \in {tasks[s], NoTask}
            /\ tasks'[s] = NoTask => out' = << >>
            /\ tasks[s].counter = 0 => tasks[s].emitted = << >>
    ]_vars

\* A task stopped in mid-loop has read false and left its loop, and the
\* step that read it published nothing.
C18_Witness ==
  \E s \in Alive :
    /\ tasks[s].pc = "exit"
    /\ tasks[s].counter \in 1..(TerminalStep - 1)
    /\ tasks[s].late >= 0
    /\ out = << >>
    /\ lock = NoHolder

\* C20: a start that returns an error has not written the flag: the only
\* errors returned are the permission error and 'already active', both
\* before line 162; off macOS no call gets past the permission check, the
\* flag stays false and 'only supported on macOS' is never returned.
C20_FailedStartLeaksNothing ==
  [][/\ (ret' # NoRet /\ ret'.op = "start" /\ ret'.val # Ok) =>
          /\ active' = active
          /\ ret'.val \in {PermissionDenied, AlreadyActive}
          /\ ret'.val # Unsupported
     /\ ~macos =>
          /\ ~active'
          /\ \A c \in Callers : pc'[c] \in {"idle", "s_perm", "t_lock", "t_set"}
          /\ \A s \in Slots : tasks'[s] = NoTask
    ]_vars

\* Off macOS two starts have been denied one after the other and the flag
\* is still false.
C20_Witness ==
  /\ ~macos
  /\ ret.op = "start" /\ ret.val = PermissionDenied
  /\ calls = 2
  /\ \A c \in Callers : pc[c] = "idle"
  /\ ~active

\* The scheduling the runtime gives: a spawned task is polled, its timer
\* fires, a contended lock() is granted in the end, and a thread that holds
\* the mutex runs on to the release.
Fairness ==
  /\ \A s \in Slots :
       /\ SF_vars(ProducerLock(s))
       /\ WF_vars(ProducerRead(s))
       /\ WF_vars(ProducerWake(s))
       /\ WF_vars(ProducerExit(s))
  /\ \A c \in Callers :
       /\ WF_vars(StartCheck(c))
       /\ WF_vars(StartSet(c))
       /\ WF_vars(StopSet(c))

FairSpec == Spec /\ Fairness

PartialsOf(t) == {i \in 1..Len(t.emitted) : ~t.emitted[i].is_final}
FinalsOf(t) == {i \in 1..Len(t.emitted) : t.emitted[i].is_final}

\* C19: every recognition task ends: its counter goes up by one with each
\* iteration and never past ten, it publishes at most nine partial fragments
\* and one final one, and under fair scheduling each task that is alive is
\* eventually gone, whatever starts and stops run beside it.
C19_ProducerTerminates ==
  /\ [](\A s \in Alive :
          /\ tasks[s].counter \in 0..TerminalStep
          /\ Len(tasks[s].emitted) <= TerminalStep
          /\ Cardinality(PartialsOf(tasks[s])) <= TerminalStep - 1
          /\ Cardinality(FinalsOf(tasks[s])) <= 1)
  /\ [][\A s \in Slots :
          (tasks[s] # NoTask /\ tasks'[s] # NoTask
             /\ tasks'[s].counter # tasks[s].counter) =>
            /\ tasks[s].pc = "sleep"
            /\ tasks'[s].counter = tasks[s].counter + 1
            /\ Len(out') = 1]_vars
  /\ \A s \in Slots : (tasks[s] # NoTask) ~> (tasks[s] = NoTask)

\* A task has published its final fragment in the open session and has
\* ended.
C19_Witness ==
  /\ session = "final"
  /\ Alive = {}
  /\ calls >= 1

\* --------------------------------------------------------------- translate
svars == <<active, lock, pc, arg, tasks, out, ret, calls, session>>

\* source_lang: Option<String>.
SourceArgs == {NoLang, "EN"}

\* What the upstream may answer: a status and a body.  A body is the text
\* on the wire and, when that text is JSON of the shape of DeepLResponse,
\* the translations it lists.
JsonBody(raw, texts) == [raw |-> raw, json |-> TRUE, translations |-> texts]
TextBody(raw) == [raw |-> raw, json |-> FALSE, translations |-> << >>]

Bodies ==
  { JsonBody("{\"translations\":[{\"text\":\"Hola\"}]}", << "Hola" >>),
    JsonBody("{\"translations\":[{\"text\":\"Hola\"},{\"text\":\"Buenas\"}]}",
             << "Hola", "Buenas" >>),
    JsonBody("{\"translations\":[]}", << >>),
    TextBody("quota exceeded") }

Statuses == {200, 403, 456}

\* StatusCode::is_success(): 200..=299.
is_success(status) == status \in 200..299

\* Display of StatusCode: the number and the canonical reason phrase.
StatusText(status) ==
  ToString(status) \o " " \o
    (CASE status = 200 -> "OK"
       [] status = 403 -> "Forbidden"
       [] OTHER -> "<unknown status code>")

KeyNotFound == "DeepL API key not found in environment."
KeyPlaceholder ==
  "API key is empty or is a placeholder. Please check your .env file."
ConnectFailed == "Failed to connect to DeepL API: error sending request"
NoErrorBody == "Could not retrieve error body."
ParseFailed == "Failed to parse DeepL response: error decoding response body"
NoTranslation == "No translation found in DeepL response."

\* Line 92: format!("DeepL API Error (Status: {}): {}", status, error_body).
UpstreamMessage(status, error_body) ==
  "DeepL API Error (Status: " \o StatusText(status) \o "): " \o error_body

\* Lines 65-72: the form parameters.
Params(text, target_lang, source_lang) ==
  << <<"text", text>>, <<"target_lang", target_lang>> >>
    \o (IF source_lang = NoLang THEN << >>
        ELSE << <<"source_lang", source_lang>> >>)

\* The front end invokes translate(text, target_lang, source_lang).
TranslateCall(source_lang) ==
  /\ tx.pc = "idle"
  /\ tx' = [TxIdle EXCEPT !.pc = "key",
                          !.req = Params("Hello", "ES", source_lang)]
  /\ UNCHANGED <<macos, env, sx, kx, svars>>

\* An empty or placeholder key let through to the request.
TranslateKeyUnchecked ==
  /\ tx.pc = "key"
  /\ IF env = NoKey
     THEN tx' = [tx EXCEPT !.pc = "idle", !.result = ErrResult(KeyNotFound)]
     ELSE tx' = [tx EXCEPT !.pc = "send"]
  /\ UNCHANGED <<macos, env, sx, kx, svars>>

\* Lines 50-59: the key is read from the environment and refused when it is
\* missing, empty or the placeholder.
TranslateKey ==
  /\ tx.pc = "key"
  /\ IF env = NoKey
     THEN tx' = [tx EXCEPT !.pc = "idle", !.result = ErrResult(KeyNotFound)]
     ELSE IF env = "" \/ env = Placeholder
     THEN tx' = [tx EXCEPT !.pc = "idle", !.result = ErrResult(KeyPlaceholder)]
     ELSE tx' = [tx EXCEPT !.pc = "send"]
  /\ UNCHANGED <<macos, env, sx, kx, svars>>

\* Lines 62-84: the POST is sent; the transport fails or a response arrives.
TranslateSend ==
  /\ tx.pc = "send"
  /\ \/ tx' = [tx EXCEPT !.sent = TRUE, !.pc = "idle",
                         !.result = ErrResult(ConnectFailed)]
     \/ \E st \in Statuses, b \in Bodies :
          tx' = [tx EXCEPT !.sent = TRUE, !.pc = "status",
                           !.resp = [status |-> st, body |-> b]]
  /\ UNCHANGED <<macos, env, sx, kx, svars>>

\* A status check that lets every response through to the parser.
TranslateStatusIgnored ==
  /\ tx.pc = "status"
  /\ tx' = [tx EXCEPT !.pc = "parse"]
  /\ UNCHANGED <<macos, env, sx, kx, svars>>

\* Lines 87-101: a status that is not a success returns the detailed error;
\* its body is response.text(), or the stand-in text when that fails.
TranslateStatus ==
  /\ tx.pc = "status"
  /\ IF ~is_success(tx.resp.status)
     THEN \E error_body \in {tx.resp.body.raw, NoErrorBody} :
            tx' = [tx EXCEPT !.pc = "idle",
                     !.result = ErrResult(UpstreamMessage(tx.resp.status,
                                                          error_body))]
     ELSE tx' = [tx EXCEPT !.pc = "parse"]
  /\ UNCHANGED <<macos, env, sx, kx, svars>>

\* Lines 104-109: response.json() into DeepLResponse.
TranslateParse ==
  /\ tx.pc = "parse"
  /\ IF tx.resp.body.json
     THEN tx' = [tx EXCEPT !.pc = "extract"]
     ELSE tx' = [tx EXCEPT !.pc = "idle", !.result = ErrResult(ParseFailed)]
  /\ UNCHANGED <<macos, env, sx, kx, svars>>

\* The last entry taken instead of the first.
ExtractLast(translations) ==
  IF translations = << >> THEN ErrResult(NoTranslation)
  ELSE OkResult(translations[Len(translations)])

\* Lines 112-120: translations.first(), or the error when there is none.
Extract(translations) ==
  IF translations = << >> THEN ErrResult(NoTranslation)
  ELSE OkResult(Head(translations))

TranslateExtract ==
  /\ tx.pc = "extract"
  /\ tx' = [tx EXCEPT !.pc = "idle",
                      !.result = Extract(tx.resp.body.translations)]
  /\ UNCHANGED <<macos, env, sx, kx, svars>>

\* ------------------------------------------------------ speak, stop_speech
PresetArgs == {"cinematic", "default", "narrator"}
LanguageCodes == {"es-ES", "fr-FR", "en-US", "de-DE"}

SpeakUnsupported == "Text-to-speech is currently only supported on macOS"
SpeakSpawnFailed == "Failed to execute speech command: No such file or directory"
SpeakFailed == "Speech synthesis failed: "
StopUnsupported == "Speech control is currently only supported on macOS"
StopSpawnFailed == "Failed to stop speech: No such file or directory"

\* A table whose fallback row is the Spanish one.
voiceSpanishDefault(language_code, voice_preset) ==
  CASE language_code = "fr-FR" ->
         (IF voice_preset = "cinematic" THEN "Thomas" ELSE "Amélie")
    [] language_code = "en-US" ->
         (IF voice_preset = "cinematic" THEN "Alex" ELSE "Samantha")
    [] OTHER ->
         (IF voice_preset = "cinematic" THEN "Diego" ELSE "Mónica")

\* Lines 213-226: the voice of the language and the preset.
voice(language_code, voice_preset) ==
  CASE language_code = "es-ES" ->
         (IF voice_preset = "cinematic" THEN "Diego" ELSE "Mónica")
    [] language_code = "fr-FR" ->
         (IF voice_preset = "cinematic" THEN "Thomas" ELSE "Amélie")
    [] OTHER ->
         (IF voice_preset = "cinematic" THEN "Alex" ELSE "Samantha")

\* Lines 229-232: the rate of the preset.
rate(voice_preset) == IF voice_preset = "cinematic" THEN "150" ELSE "200"

\* Lines 235-240: say -v <voice> -r <rate> <text>.
SayCommand(text, voice_preset, language_code) ==
  << "say", "-v", voice(language_code, voice_preset),
     "-r", rate(voice_preset), text >>

\* The front end invokes speak(text, voice_preset, language_code): on macOS
\* the command is built, elsewhere the call returns its error (lines 252-257).
SpeakCall(voice_preset, language_code) ==
  /\ sx.pc = "idle"
  /\ IF macos
     THEN sx' = [SxIdle EXCEPT !.pc = "spawn",
                   !.voice_preset = voice_preset,
                   !.language_code = language_code,
                   !.cmd = SayCommand("Hi", voice_preset, language_code)]
     ELSE sx' = [SxIdle EXCEPT !.voice_preset = voice_preset,
                   !.language_code = language_code,
                   !.result = ErrResult(SpeakUnsupported)]
  /\ UNCHANGED <<macos, env, tx, kx, svars>>

\* Lines 241-242: Command::output() starts `say`, or fails to.
SpeakSpawn ==
  /\ sx.pc = "spawn"
  /\ \/ sx' = [sx EXCEPT !.pc = "idle", !.result = ErrResult(SpeakSpawnFailed)]
     \/ sx' = [sx EXCEPT !.pc = "say"]
  /\ UNCHANGED <<macos, env, tx, kx, svars>>

\* Lines 241-249: `say` has ended; a killed one has no success status.
SpeakExit ==
  /\ sx.pc = "say"
  /\ \E success \in (IF sx.killed THEN {FALSE} ELSE BOOLEAN) :
       sx' = [sx EXCEPT !.pc = "idle",
                !.result = IF success THEN OkResult("")
                           ELSE ErrResult(SpeakFailed)]
  /\ UNCHANGED <<macos, env, tx, kx, svars>>

\* The front end invokes stop_speech(): on macOS killall is run next,
\* elsewhere the call returns its error (lines 274-279).
StopSpeechCall ==
  /\ kx.pc = "idle"
  /\ IF macos
     THEN kx' = [KxIdle EXCEPT !.pc = "run"]
     ELSE kx' = [KxIdle EXCEPT !.result = ErrResult(StopUnsupported)]
  /\ UNCHANGED <<macos, env, tx, sx, svars>>

\* A stop_speech that reports the exit status of killall.
StopSpeechRunChecked ==
  /\ kx.pc = "run"
  /\ \/ /\ kx' = [kx EXCEPT !.pc = "idle", !.result = ErrResult(StopSpawnFailed)]
        /\ sx' = sx
     \/ LET found == sx.pc = "say" /\ ~sx.killed
        IN /\ kx' = [kx EXCEPT !.pc = "idle", !.ran = TRUE, !.found = found,
                        !.result = IF found THEN OkResult("")
                                   ELSE ErrResult("No matching processes")]
           /\ sx' = IF found THEN [sx EXCEPT !.killed = TRUE] ELSE sx
  /\ UNCHANGED <<macos, env, tx, svars>>

\* Lines 265-271: killall say is run, or cannot be; it ends a running `say`
\* and exits non-zero when there is none, and its status is not looked at.
StopSpeechRun ==
  /\ kx.pc = "run"
  /\ \/ /\ kx' = [kx EXCEPT !.pc = "idle", !.result = ErrResult(StopSpawnFailed)]
        /\ sx' = sx
     \/ LET found == sx.pc = "say" /\ ~sx.killed
        IN /\ kx' = [kx EXCEPT !.pc = "idle", !.ran = TRUE, !.found = found,
                        !.result = OkResult("")]
           /\ sx' = IF found THEN [sx EXCEPT !.killed = TRUE] ELSE sx
  /\ UNCHANGED <<macos, env, tx, svars>>

\* ---------------------------------------------------------- the gateways
GatewayInit ==
  /\ macos \in BOOLEAN
  /\ env \in Credentials
  /\ active = FALSE
  /\ lock = NoHolder
  /\ pc = [c \in Callers |-> "idle"]
  /\ arg = [c \in Callers |-> NoLang]
  /\ tasks = [s \in Slots |-> NoTask]
  /\ out = << >>
  /\ ret = NoRet
  /\ session = "closed"
  /\ calls = 0
  /\ tx = TxIdle
  /\ sx = SxIdle
  /\ kx = KxIdle

GatewayNext ==
  \/ \E source_lang \in SourceArgs : TranslateCall(source_lang)
  \/ TranslateKey
  \/ TranslateSend
  \/ TranslateStatus
  \/ TranslateParse
  \/ TranslateExtract
  \/ \E voice_preset \in PresetArgs, language_code \in LanguageCodes :
       SpeakCall(voice_preset, language_code)
  \/ SpeakSpawn
  \/ SpeakExit
  \/ StopSpeechCall
  \/ StopSpeechRun

GatewaySpec == GatewayInit /\ [][GatewayNext]_vars

\* ---------------------------------------------------- claims, the gateways
BadCredentials == {NoKey, "", Placeholder}

\* C12: with the key unset, empty or the placeholder, translate returns the
\* configuration error of its case and never reaches the HTTP request.
C12_NoKeyNoRequest ==
  env \in BadCredentials =>
    /\ ~tx.sent
    /\ tx.pc \in {"idle", "key"}
    /\ tx.resp = NoResp
    /\ tx.result \in
         {NoResult,
          ErrResult(IF env = NoKey THEN KeyNotFound ELSE KeyPlaceholder)}

\* translate has returned its configuration error for the placeholder key
\* and no request went out.
C12_Witness ==
  /\ env = Placeholder
  /\ tx.pc = "idle"
  /\ tx.result = ErrResult(KeyPlaceholder)
  /\ ~tx.sent

Contains(s, sub) ==
  \E i \in 1..(Len(s) - Len(sub) + 1) : SubSeq(s, i, i + Len(sub) - 1) = sub

\* translate has returned after a response whose status is not a success.
UpstreamRefused ==
  /\ tx.pc = "idle"
  /\ tx.resp # NoResp
  /\ ~is_success(tx.resp.status)

\* C13 as stated: after a non-success status the result is an error whose
\* message carries the numeric status and the full response body.
C13_ErrorCarriesStatusAndBody ==
  UpstreamRefused =>
    /\ tx.result.kind = "Err"
    /\ Contains(tx.result.value, ToString(tx.resp.status))
    /\ Contains(tx.result.value, tx.resp.body.raw)

\* C13, amended: after a non-success status the result is never a
\* translation but an error whose message carries the numeric status and
\* either the full response body or, when the body could not be read, the
\* text "Could not retrieve error body." in its place.
C13_ErrorCarriesStatusAndBodyOrStandIn ==
  UpstreamRefused =>
    /\ tx.sent
    /\ tx.result.kind = "Err"
    /\ Contains(tx.result.value, ToString(tx.resp.status))
    /\ \/ tx.result.value =
            "DeepL API Error (Status: " \o StatusText(tx.resp.status)
              \o "): " \o tx.resp.body.raw
       \/ tx.result.value =
            "DeepL API Error (Status: " \o StatusText(tx.resp.status)
              \o "): " \o NoErrorBody

\* Upstream answered 456 "quota exceeded" and both are in the message.
C13_Witness ==
  /\ UpstreamRefused
  /\ tx.resp.status = 456
  /\ tx.resp.body.raw = "quota exceeded"
  /\ tx.result.kind = "Err"
  /\ Contains(tx.result.value, "456")
  /\ Contains(tx.result.value, "quota exceeded")

\* translate has returned after a success status with a body that parses.
UpstreamParsed ==
  /\ tx.pc = "idle"
  /\ tx.resp # NoResp
  /\ is_success(tx.resp.status)
  /\ tx.resp.body.json

\* C14: a successful, parsable response yields the text of its first
\* translation entry, whatever follows it, and the empty-result error when
\* it lists none.
C14_FirstEntryOrEmptyError ==
  UpstreamParsed =>
    IF Len(tx.resp.body.translations) = 0
    THEN tx.result = ErrResult(NoTranslation)
    ELSE tx.result = OkResult(tx.resp.body.translations[1])

\* Two entries came back and the first one was returned.
C14_Witness ==
  /\ UpstreamParsed
  /\ Len(tx.resp.body.translations) = 2
  /\ tx.resp.body.translations[1] # tx.resp.body.translations[2]
  /\ tx.result = OkResult("Hola")

\* C15: the `say` command of a speak call is fixed by its language code and
\* preset: fr-FR with cinematic gives Thomas at 150, a preset other than
\* cinematic gives the default voice of the language at 200, and a language
\* code other than es-ES and fr-FR takes the English row.
C15_VoiceTable ==
  sx.cmd # << >> =>
    LET l == sx.language_code
        p == sx.voice_preset
        v == sx.cmd[3]
        r == sx.cmd[5]
    IN /\ sx.cmd = << "say", "-v", v, "-r", r, "Hi" >>
       /\ (l = "fr-FR" /\ p = "cinematic") => (v = "Thomas" /\ r = "150")
       /\ (l = "es-ES" /\ p = "cinematic") => (v = "Diego" /\ r = "150")
       /\ p # "cinematic" =>
            /\ r = "200"
            /\ v = (CASE l = "es-ES" -> "Mónica"
                      [] l = "fr-FR" -> "Amélie"
                      [] OTHER -> "Samantha")
       /\ l \notin {"es-ES", "fr-FR"} =>
            v = (IF p = "cinematic" THEN "Alex" ELSE "Samantha")

\* speak("Hi", "cinematic", "fr-FR") has run its command and returned Ok.
C15_Witness ==
  /\ sx.language_code = "fr-FR"
  /\ sx.voice_preset = "cinematic"
  /\ sx.cmd = << "say", "-v", "Thomas", "-r", "150", "Hi" >>
  /\ sx.result = OkResult("")

\* stop_speech has returned and killall, if it ran, found no `say`.
StoppedNothing == kx.pc = "idle" /\ kx.result # NoResult /\ ~kx.found

\* C16 as stated: stop_speech with no running synthesis process returns
\* success; only failing to run the command at all is an error.
C16_StopSpeechSucceeds ==
  StoppedNothing =>
    \/ kx.result.kind = "Ok"
    \/ kx.result = ErrResult(StopSpawnFailed)

\* C16, amended: in the macOS build stop_speech with no running synthesis
\* process returns success whenever killall could be run, whatever its exit
\* status, and an error only when it could not; in any other build
\* stop_speech always returns its 'only supported on macOS' error.
C16_StopSpeechSucceedsOnMacos ==
  /\ (macos /\ StoppedNothing) =>
       IF kx.ran THEN kx.result = OkResult("")
       ELSE kx.result = ErrResult(StopSpawnFailed)
  /\ (~macos /\ kx.result # NoResult) =>
       /\ kx.result = ErrResult(StopUnsupported)
       /\ ~kx.ran

\* killall ran, found no `say` to end, and stop_speech returned Ok.
C16_Witness ==
  /\ macos
  /\ StoppedNothing
  /\ kx.ran
  /\ sx.pc = "idle"
  /\ kx.result = OkResult("")

====
